---- MODULE Spec2Model ----
(***************************************************************************)
(* A model of the grid path-finder of Seminario_IA/seminario_ia.py: the    *)
(* Node objects, the three frontiers (StackFrontier, QueueFrontier,        *)
(* PriorityFrontier over heapq) and Maze.solve with its four algorithms.   *)
(*                                                                         *)
(* Python values are encoded as follows.  A cell (row, col) is the tuple   *)
(* <<row, col>>, zero-based as in the code.  A Node object is a record of  *)
(* the arena `nodes`, named by its index there (its creation order); the   *)
(* parent None is index 0 and the action None is the string "None".        *)
(* self.solution = None is the empty tuple; a set solution is the pair     *)
(* <<actions, cells>>.  An exception is the string of its message.         *)
(***************************************************************************)
EXTENDS Integers, Sequences, FiniteSets, TLC

VARIABLES
    m,          \* the Maze object: height, width, walls, start, goal,
                \* solution, explored, num_explored
    algorithm,  \* the argument of the running (or last) solve call
    pc,         \* "idle": no call is running; "loop": inside `while True`
    raised,     \* the exception the last call ended with, or None
    best_g,     \* local of solve: the cost ledger
    nodes,      \* the Node objects created by the running (or last) call
    frontier,   \* local of solve: the frontier object
    prev,       \* history: whether a call ended before this one began, and
                \* the outcome of that call when it asked for the same
                \* algorithm as this one
    log,        \* history of a frontier used on its own: its add and remove
                \* calls in order, each with the node and what it raised
    before      \* history: self and the locals of solve as the latest
                \* iteration of the loop found them, NoStep when the running
                \* (or last) call has made no iteration

vars == <<m, algorithm, pc, raised, best_g, nodes, frontier, prev, log, before>>

(***************************************************************************)
(* Bounds of the model.                                                    *)
(***************************************************************************)
MaxCells == 8       \* a grid has at most this many cells
MaxOps == 6         \* calls made on a frontier used on its own
MaxPriority == 2    \* priorities such a call adds with

None == "None"
NoSolution == <<>>
NoParent == 0

\* The messages of the three exceptions the code raises ("sem solução" is
\* written here without its diacritics)
ErrEmpty == "fronteira vazia"
ErrNoSolution == "sem solucao"
ErrUnknown == "Algoritmo desconhecido"

Supported == {"DFS", "BFS", "CustoMinimo", "A*"}
AlgorithmInputs == Supported \cup {"dfs", "Dijkstra"}

Abs(x) == IF x < 0 THEN -x ELSE x

RECURSIVE Reverse(_)
Reverse(s) == IF s = <<>> THEN <<>> ELSE Reverse(Tail(s)) \o <<Head(s)>>

NodeHeuristicDropped(state, parent, action, cost, heuristic) ==
    [state |-> state, parent |-> parent, action |-> action, cost |-> cost,
     heuristic |-> 0, total_cost |-> cost]

(***************************************************************************)
(* Node.__init__                                                           *)
(***************************************************************************)
Node(state, parent, action, cost, heuristic) ==
    [state |-> state, parent |-> parent, action |-> action, cost |-> cost,
     heuristic |-> heuristic, total_cost |-> cost + heuristic]

(***************************************************************************)
(* PrioritizedItem: @dataclass(order=True) compares (priority, counter)    *)
(* lexicographically; the node field is excluded (compare=False).          *)
(***************************************************************************)
PrioritizedItem(p, counter, node) ==
    [priority |-> p, counter |-> counter, node |-> node]

ItemLessPriorityOnly(a, b) == a.priority < b.priority

ItemLess(a, b) ==
    \/ a.priority < b.priority
    \/ a.priority = b.priority /\ a.counter < b.counter

(***************************************************************************)
(* heapq.heappush and heapq.heappop as CPython's heapq.py computes them    *)
(* (_siftdown, _siftup), on a list `heap` with positions 0 .. len-1        *)
(* (position p is heap[p + 1] here).  Items are compared with <, which     *)
(* for PrioritizedItem is ItemLess.                                        *)
(***************************************************************************)
RECURSIVE siftdownLoop(_, _, _, _)
siftdownLoop(heap, startpos, pos, newitem) ==
    IF pos > startpos
    THEN LET parentpos == (pos - 1) \div 2
             parent == heap[parentpos + 1]
         IN IF ItemLess(newitem, parent)
            THEN siftdownLoop([heap EXCEPT ![pos + 1] = parent],
                              startpos, parentpos, newitem)
            ELSE [heap EXCEPT ![pos + 1] = newitem]
    ELSE [heap EXCEPT ![pos + 1] = newitem]

siftdown(heap, startpos, pos) ==
    siftdownLoop(heap, startpos, pos, heap[pos + 1])

RECURSIVE siftupLoop(_, _, _, _)
siftupLoop(heap, startpos, pos, newitem) ==
    LET endpos == Len(heap)
        childpos == 2 * pos + 1
    IN IF childpos < endpos
       THEN LET rightpos == childpos + 1
                c == IF rightpos < endpos
                        /\ ~ItemLess(heap[childpos + 1], heap[rightpos + 1])
                     THEN rightpos ELSE childpos
            IN siftupLoop([heap EXCEPT ![pos + 1] = heap[c + 1]],
                          startpos, c, newitem)
       ELSE siftdown([heap EXCEPT ![pos + 1] = newitem], startpos, pos)

siftup(heap, pos) == siftupLoop(heap, pos, pos, heap[pos + 1])

heappush(heap, item) ==
    LET h == Append(heap, item) IN siftdown(h, 0, Len(h) - 1)

\* heappop on a non-empty heap: <<the heap afterwards, the item returned>>
heappop(heap) ==
    LET lastelt == heap[Len(heap)]
        rest == SubSeq(heap, 1, Len(heap) - 1)
    IN IF rest # <<>>
       THEN <<siftup([rest EXCEPT ![1] = lastelt], 0), rest[1]>>
       ELSE <<rest, lastelt>>

(***************************************************************************)
(* The frontier objects.  QueueFrontier inherits __init__, add and empty   *)
(* from StackFrontier.                                                     *)
(***************************************************************************)
NoFrontier == [class |-> None]
StackFrontier == [class |-> "StackFrontier", frontier |-> <<>>]
QueueFrontier == [class |-> "QueueFrontier", frontier |-> <<>>]
PriorityFrontier == [class |-> "PriorityFrontier", heap |-> <<>>, counter |-> 0]

\* StackFrontier.add / QueueFrontier.add
ListAdd(f, node) == [f EXCEPT !.frontier = Append(@, node)]

PriorityAddNewestFirst(f, node, p) ==
    LET counter == f.counter + 1
    IN [f EXCEPT !.counter = counter,
                 !.heap = heappush(@, PrioritizedItem(p, 0 - counter, node))]

\* PriorityFrontier.add
PriorityAdd(f, node, p) ==
    LET counter == f.counter + 1
    IN [f EXCEPT !.counter = counter,
                 !.heap = heappush(@, PrioritizedItem(p, counter, node))]

\* empty() of the three classes
FrontierEmpty(f) ==
    IF f.class = "PriorityFrontier" THEN Len(f.heap) = 0 ELSE Len(f.frontier) = 0

Returned(f, node) == [raised |-> None, node |-> node, frontier |-> f]
Raised(f, msg) == [raised |-> msg, node |-> NoParent, frontier |-> f]

StackRemoveFirst(f) ==
    IF FrontierEmpty(f) THEN Raised(f, ErrEmpty)
    ELSE Returned([f EXCEPT !.frontier = Tail(@)], Head(f.frontier))

\* StackFrontier.remove: list.pop()
StackRemove(f) ==
    IF FrontierEmpty(f) THEN Raised(f, ErrEmpty)
    ELSE Returned([f EXCEPT !.frontier = SubSeq(@, 1, Len(@) - 1)],
                  f.frontier[Len(f.frontier)])

QueueRemoveLast(f) ==
    IF FrontierEmpty(f) THEN Raised(f, ErrEmpty)
    ELSE Returned([f EXCEPT !.frontier = SubSeq(@, 1, Len(@) - 1)],
                  f.frontier[Len(f.frontier)])

\* QueueFrontier.remove: list.pop(0)
QueueRemove(f) ==
    IF FrontierEmpty(f) THEN Raised(f, ErrEmpty)
    ELSE Returned([f EXCEPT !.frontier = Tail(@)], Head(f.frontier))

\* PriorityFrontier.remove: heapq.heappop(self.heap).node
PriorityRemove(f) ==
    IF FrontierEmpty(f) THEN Raised(f, ErrEmpty)
    ELSE LET r == heappop(f.heap)
         IN Returned([f EXCEPT !.heap = r[1]], r[2].node)

\* remove() dispatched on the object's class
FrontierRemove(f) ==
    IF f.class = "StackFrontier" THEN StackRemove(f)
    ELSE IF f.class = "QueueFrontier" THEN QueueRemove(f)
    ELSE PriorityRemove(f)

\* The nodes a frontier holds, in the order of its list
FrontierNodes(f) ==
    IF f.class = "PriorityFrontier" THEN [i \in 1..Len(f.heap) |-> f.heap[i].node]
    ELSE IF f.class = None THEN <<>>
    ELSE f.frontier

(***************************************************************************)
(* Maze.  `self` is the Maze object.                                       *)
(***************************************************************************)
Cells(h, w) == (0 .. h - 1) \X (0 .. w - 1)

CandidatesLeftDropped(state) ==
    << <<"cima", <<state[1] - 1, state[2]>> >>,
       <<"baixo", <<state[1] + 1, state[2]>> >>,
       <<"direita", <<state[1], state[2] + 1>> >> >>

\* Maze.neighbors: the candidates in the fixed order cima, baixo, esquerda,
\* direita, kept when inside the grid and not a wall
Candidates(state) ==
    << <<"cima", <<state[1] - 1, state[2]>> >>,
       <<"baixo", <<state[1] + 1, state[2]>> >>,
       <<"esquerda", <<state[1], state[2] - 1>> >>,
       <<"direita", <<state[1], state[2] + 1>> >> >>

InGrid(self, r, c) ==
    0 <= r /\ r < self.height /\ 0 <= c /\ c < self.width

neighborsWallsIgnored(self, state) ==
    SelectSeq(Candidates(state), LAMBDA p : InGrid(self, p[2][1], p[2][2]))

neighbors(self, state) ==
    SelectSeq(Candidates(state),
              LAMBDA p : InGrid(self, p[2][1], p[2][2]) /\ p[2] \notin self.walls)

manhattan_distanceRowsOnly(self, state) == Abs(state[1] - self.goal[1])

\* Maze.manhattan_distance
manhattan_distance(self, state) ==
    Abs(state[1] - self.goal[1]) + Abs(state[2] - self.goal[2])

RECURSIVE ParentWalkRootKept(_, _)
ParentWalkRootKept(ns, node) ==
    IF ns[node].parent = NoParent THEN <<node>>
    ELSE <<node>> \o ParentWalkRootKept(ns, ns[node].parent)

\* Maze.reconstruct_path: the nodes from `node` back to the root, the root
\* (parent None) left out
RECURSIVE ParentWalk(_, _)
ParentWalk(ns, node) ==
    IF ns[node].parent = NoParent THEN <<>>
    ELSE <<node>> \o ParentWalk(ns, ns[node].parent)

reconstruct_pathUnreversed(st, node) ==
    LET walk == ParentWalk(st.nodes, node)
        actions == [i \in 1 .. Len(walk) |-> st.nodes[walk[i]].action]
        cells == [i \in 1 .. Len(walk) |-> st.nodes[walk[i]].state]
    IN [st EXCEPT !.self.solution = <<actions, cells>>]

reconstruct_path(st, node) ==
    LET walk == ParentWalk(st.nodes, node)
        actions == Reverse([i \in 1 .. Len(walk) |-> st.nodes[walk[i]].action])
        cells == Reverse([i \in 1 .. Len(walk) |-> st.nodes[walk[i]].state])
    IN [st EXCEPT !.self.solution = <<actions, cells>>]

LessOrEqualGet(x, d, k) == k \notin DOMAIN d \/ x <= d[k]

GreaterOrEqualGet(x, d, k) == k \in DOMAIN d /\ x >= d[k]

\* best_g.get(state, float("inf")) in the two comparisons solve makes
LessThanGet(x, d, k) == k \notin DOMAIN d \/ x < d[k]
GreaterThanGet(x, d, k) == k \in DOMAIN d /\ x > d[k]

\* The local function priority(n) of solve
priority(n, alg) == IF alg = "CustoMinimo" THEN n.cost ELSE n.cost + n.heuristic

(***************************************************************************)
(* Maze.solve.  A run state `st` holds self and the locals of solve:       *)
(* [self, best_g, nodes, frontier, pc, raised].                            *)
(***************************************************************************)
ResetFieldsKeepExplored(self) ==
    [self EXCEPT !.num_explored = 0, !.solution = NoSolution]

ResetFieldsKeepCounter(self) ==
    [self EXCEPT !.explored = {}, !.solution = NoSolution]

ResetFieldsKeepSolution(self) ==
    [self EXCEPT !.num_explored = 0, !.explored = {}]

\* Lines 189-191
ResetFields(self) ==
    [self EXCEPT !.num_explored = 0, !.explored = {}, !.solution = NoSolution]

Raise(st, msg) == [st EXCEPT !.pc = "idle", !.raised = msg]

ReturnStaysInLoop(st) == st

Return(st) == [st EXCEPT !.pc = "idle"]

\* Lines 186-204, 230-232, 259-268, 298-299: the reset, the start node, the
\* frontier of the algorithm holding the start node, or the unknown-algorithm
\* error
Entry(self, alg) ==
    LET start_h == IF alg = "A*" THEN manhattan_distance(self, self.start) ELSE 0
        start_node == Node(self.start, NoParent, None, 0, start_h)
        st == [self |-> ResetFields(self),
               best_g |-> (self.start :> 0),
               nodes |-> <<start_node>>,
               frontier |-> NoFrontier,
               pc |-> "loop",
               raised |-> None]
    IN IF alg = "DFS"
       THEN [st EXCEPT !.frontier = ListAdd(StackFrontier, 1)]
       ELSE IF alg = "BFS"
       THEN [st EXCEPT !.frontier = ListAdd(QueueFrontier, 1)]
       ELSE IF alg \in {"CustoMinimo", "A*"}
       THEN [st EXCEPT !.frontier =
                PriorityAdd(PriorityFrontier, 1, priority(start_node, alg))]
       ELSE Raise(st, ErrUnknown)

\* Lines 224-227: the for loop of DFS over the neighbours `nbrs` of node
RECURSIVE ExpandDFS(_, _, _)
ExpandDFS(st, node, nbrs) ==
    IF nbrs = <<>> THEN st
    ELSE LET action == Head(nbrs)[1]
             state == Head(nbrs)[2]
         IN IF state \notin st.self.explored
            THEN LET child == Node(state, node, action, st.nodes[node].cost + 1, 0)
                     ns == Append(st.nodes, child)
                 IN ExpandDFS([st EXCEPT !.nodes = ns,
                                         !.frontier = ListAdd(@, Len(ns))],
                              node, Tail(nbrs))
            ELSE ExpandDFS(st, node, Tail(nbrs))

RECURSIVE ExpandBFSLedgerIgnored(_, _, _)
ExpandBFSLedgerIgnored(st, node, nbrs) ==
    IF nbrs = <<>> THEN st
    ELSE LET child == Node(Head(nbrs)[2], node, Head(nbrs)[1],
                           st.nodes[node].cost + 1, 0)
             ns == Append(st.nodes, child)
         IN ExpandBFSLedgerIgnored(
                [st EXCEPT !.nodes = ns, !.frontier = ListAdd(@, Len(ns))],
                node, Tail(nbrs))

\* Lines 251-256: the for loop of BFS
RECURSIVE ExpandBFS(_, _, _)
ExpandBFS(st, node, nbrs) ==
    IF nbrs = <<>> THEN st
    ELSE LET action == Head(nbrs)[1]
             state == Head(nbrs)[2]
         IN IF state \notin DOMAIN st.best_g
            THEN LET child == Node(state, node, action, st.nodes[node].cost + 1, 0)
                     ns == Append(st.nodes, child)
                 IN ExpandBFS([st EXCEPT
                                 !.best_g = (state :> (st.nodes[node].cost + 1)) @@ @,
                                 !.nodes = ns,
                                 !.frontier = ListAdd(@, Len(ns))],
                              node, Tail(nbrs))
            ELSE ExpandBFS(st, node, Tail(nbrs))

RECURSIVE ExpandPriorityLedgerUnset(_, _, _, _)
ExpandPriorityLedgerUnset(st, alg, node, nbrs) ==
    IF nbrs = <<>> THEN st
    ELSE LET state == Head(nbrs)[2]
             new_g == st.nodes[node].cost + 1
         IN IF LessThanGet(new_g, st.best_g, state)
            THEN LET new_h == IF alg = "A*"
                              THEN manhattan_distance(st.self, state) ELSE 0
                     child == Node(state, node, Head(nbrs)[1], new_g, new_h)
                     ns == Append(st.nodes, child)
                 IN ExpandPriorityLedgerUnset(
                        [st EXCEPT !.nodes = ns,
                                   !.frontier =
                                      PriorityAdd(@, Len(ns), priority(child, alg))],
                        alg, node, Tail(nbrs))
            ELSE ExpandPriorityLedgerUnset(st, alg, node, Tail(nbrs))

\* Lines 289-296: the for loop of CustoMinimo and A*
RECURSIVE ExpandPriority(_, _, _, _)
ExpandPriority(st, alg, node, nbrs) ==
    IF nbrs = <<>> THEN st
    ELSE LET action == Head(nbrs)[1]
             state == Head(nbrs)[2]
             new_g == st.nodes[node].cost + 1
         IN IF LessThanGet(new_g, st.best_g, state)
            THEN LET new_h == IF alg = "A*"
                              THEN manhattan_distance(st.self, state) ELSE 0
                     child == Node(state, node, action, new_g, new_h)
                     ns == Append(st.nodes, child)
                 IN ExpandPriority(
                        [st EXCEPT !.best_g = (state :> new_g) @@ @,
                                   !.nodes = ns,
                                   !.frontier =
                                      PriorityAdd(@, Len(ns), priority(child, alg))],
                        alg, node, Tail(nbrs))
            ELSE ExpandPriority(st, alg, node, Tail(nbrs))

FrontierEmptyNeverTrue(f) == FALSE

\* The driver's test `if frontier.empty()` at lines 207, 235, 271
DriverSeesEmpty(f) == FrontierEmpty(f)

\* Lines 206-227: one iteration of the while loop of DFS
DFSIter(st) ==
    IF DriverSeesEmpty(st.frontier) THEN Raise(st, ErrNoSolution)
    ELSE LET r == FrontierRemove(st.frontier)
         IN IF r.raised # None THEN Raise(st, r.raised)
            ELSE LET node == r.node
                     s1 == [st EXCEPT !.frontier = r.frontier,
                                      !.self.num_explored = @ + 1]
                 IN IF s1.nodes[node].state = s1.self.goal
                    THEN Return(reconstruct_path(s1, node))
                    ELSE IF s1.nodes[node].state \in s1.self.explored
                    THEN s1
                    ELSE ExpandDFS(
                           [s1 EXCEPT !.self.explored = @ \cup {s1.nodes[node].state}],
                           node, neighbors(s1.self, s1.nodes[node].state))

\* Lines 234-256: one iteration of the while loop of BFS
BFSIter(st) ==
    IF DriverSeesEmpty(st.frontier) THEN Raise(st, ErrNoSolution)
    ELSE LET r == FrontierRemove(st.frontier)
         IN IF r.raised # None THEN Raise(st, r.raised)
            ELSE LET node == r.node
                     s1 == [st EXCEPT !.frontier = r.frontier,
                                      !.self.num_explored = @ + 1]
                 IN IF s1.nodes[node].state = s1.self.goal
                    THEN Return(reconstruct_path(s1, node))
                    ELSE IF s1.nodes[node].state \in s1.self.explored
                    THEN s1
                    ELSE ExpandBFS(
                           [s1 EXCEPT !.self.explored = @ \cup {s1.nodes[node].state}],
                           node, neighbors(s1.self, s1.nodes[node].state))

PriorityIterStaleUncounted(st, alg) ==
    IF DriverSeesEmpty(st.frontier) THEN Raise(st, ErrNoSolution)
    ELSE LET r == FrontierRemove(st.frontier)
         IN IF r.raised # None THEN Raise(st, r.raised)
            ELSE LET node == r.node
                     s0 == [st EXCEPT !.frontier = r.frontier]
                     s1 == [s0 EXCEPT !.self.num_explored = @ + 1]
                 IN IF GreaterThanGet(s1.nodes[node].cost, s1.best_g,
                                      s1.nodes[node].state)
                    THEN s0
                    ELSE IF s1.nodes[node].state = s1.self.goal
                    THEN Return(reconstruct_path(s1, node))
                    ELSE ExpandPriority(
                           [s1 EXCEPT !.self.explored = @ \cup {s1.nodes[node].state}],
                           alg, node, neighbors(s1.self, s1.nodes[node].state))

\* Lines 270-296: one iteration of the while loop of CustoMinimo and A*
PriorityIter(st, alg) ==
    IF DriverSeesEmpty(st.frontier) THEN Raise(st, ErrNoSolution)
    ELSE LET r == FrontierRemove(st.frontier)
         IN IF r.raised # None THEN Raise(st, r.raised)
            ELSE LET node == r.node
                     s1 == [st EXCEPT !.frontier = r.frontier,
                                      !.self.num_explored = @ + 1]
                 IN IF GreaterThanGet(s1.nodes[node].cost, s1.best_g,
                                      s1.nodes[node].state)
                    THEN s1
                    ELSE IF s1.nodes[node].state = s1.self.goal
                    THEN Return(reconstruct_path(s1, node))
                    ELSE ExpandPriority(
                           [s1 EXCEPT !.self.explored = @ \cup {s1.nodes[node].state}],
                           alg, node, neighbors(s1.self, s1.nodes[node].state))

\* One iteration of the loop the algorithm runs
Iter(st, alg) ==
    IF alg = "DFS" THEN DFSIter(st)
    ELSE IF alg = "BFS" THEN BFSIter(st)
    ELSE PriorityIter(st, alg)

\* solve(alg) run to its end from the run state st
RECURSIVE RunLoop(_, _)
RunLoop(st, alg) == IF st.pc # "loop" THEN st ELSE RunLoop(Iter(st, alg), alg)

\* Maze.__init__, lines 137-139: the result fields of a freshly built Maze
Constructed(self) ==
    [self EXCEPT !.solution = NoSolution, !.explored = {}, !.num_explored = 0]

\* What a caller can observe of a finished call
Outcome(st) ==
    [raised |-> st.raised, solution |-> st.self.solution,
     explored |-> st.self.explored, num_explored |-> st.self.num_explored]

\* solve(alg) on a freshly built Maze of the grid of self
FreshOutcome(self, alg) == Outcome(RunLoop(Entry(Constructed(self), alg), alg))

(***************************************************************************)
(* The state machine.                                                      *)
(***************************************************************************)
Cur == [self |-> m, best_g |-> best_g, nodes |-> nodes, frontier |-> frontier,
        pc |-> pc, raised |-> raised]

Install(st) ==
    /\ m' = st.self
    /\ best_g' = st.best_g
    /\ nodes' = st.nodes
    /\ frontier' = st.frontier
    /\ pc' = st.pc
    /\ raised' = st.raised

\* The grids Maze.__init__ can build within the bounds: at least two rows
\* and two columns, at most MaxCells cells, every placement of walls, one
\* start and one goal, distinct and not walls
Shapes ==
    {hw \in (2 .. MaxCells) \X (2 .. MaxCells) : hw[1] * hw[2] <= MaxCells}

SmallMazes ==
    UNION { LET G == Cells(hw[1], hw[2])
            IN UNION { UNION { { [height |-> hw[1], width |-> hw[2],
                                  walls |-> ws, start |-> a, goal |-> b,
                                  solution |-> NoSolution, explored |-> {},
                                  num_explored |-> 0]
                                : ws \in SUBSET (G \ {a, b}) }
                              : b \in G \ {a} }
                       : a \in G }
            : hw \in Shapes }

\* The open 5x5 grid with start (0,0) and goal (0,4)
OpenGrid5x5 ==
    [height |-> 5, width |-> 5, walls |-> {}, start |-> <<0, 0>>,
     goal |-> <<0, 4>>, solution |-> NoSolution, explored |-> {},
     num_explored |-> 0]

\* The grid of 7 rows and 3 columns
\*     . . .
\*     B # .
\*     # . .
\*     . # .
\*     . . .
\*     . # .
\*     . A .
\* on which A* removes a node whose cost exceeds the ledger and then finds
\* the goal
DetourGrid7x3 ==
    [height |-> 7, width |-> 3,
     walls |-> {<<1, 1>>, <<2, 0>>, <<3, 1>>, <<5, 1>>},
     start |-> <<6, 1>>, goal |-> <<1, 0>>, solution |-> NoSolution,
     explored |-> {}, num_explored |-> 0]

NoPrev == [called |-> FALSE, algorithm |-> None]

NoStep == [pc |-> None]

Init ==
    /\ m \in SmallMazes \cup {OpenGrid5x5, DetourGrid7x3}
    /\ algorithm = None
    /\ pc = "idle"
    /\ raised = None
    /\ best_g = <<>>
    /\ nodes = <<>>
    /\ frontier = NoFrontier
    /\ prev = NoPrev
    /\ log = <<>>
    /\ before = NoStep

\* A caller calls m.solve(alg)
Solve(alg) ==
    /\ pc = "idle"
    /\ algorithm' = alg
    /\ Install(Entry(m, alg))
    /\ prev' = IF alg = algorithm
               THEN [called |-> TRUE, algorithm |-> algorithm,
                     outcome |-> Outcome(Cur)]
               ELSE [called |-> algorithm # None, algorithm |-> None]
    /\ before' = NoStep
    /\ UNCHANGED log

DFSLoop ==
    /\ pc = "loop"
    /\ algorithm = "DFS"
    /\ Install(DFSIter(Cur))
    /\ before' = Cur
    /\ UNCHANGED <<algorithm, prev, log>>

BFSLoop ==
    /\ pc = "loop"
    /\ algorithm = "BFS"
    /\ Install(BFSIter(Cur))
    /\ before' = Cur
    /\ UNCHANGED <<algorithm, prev, log>>

PriorityLoop ==
    /\ pc = "loop"
    /\ algorithm \in {"CustoMinimo", "A*"}
    /\ Install(PriorityIter(Cur, algorithm))
    /\ before' = Cur
    /\ UNCHANGED <<algorithm, prev, log>>

Next ==
    \/ \E alg \in AlgorithmInputs : Solve(alg)
    \/ DFSLoop
    \/ BFSLoop
    \/ PriorityLoop

Spec == Init /\ [][Next]_vars

(***************************************************************************)
(* The frontier classes used on their own: a caller builds a frontier and  *)
(* calls add and remove in any order.  Every add gets a new Node whose     *)
(* cost is the priority it is added with.                                  *)
(***************************************************************************)
InitFrontier ==
    /\ m = OpenGrid5x5
    /\ algorithm = None
    /\ pc = "idle"
    /\ raised = None
    /\ best_g = <<>>
    /\ nodes = <<>>
    /\ frontier \in {StackFrontier, QueueFrontier, PriorityFrontier}
    /\ prev = NoPrev
    /\ log = <<>>
    /\ before = NoStep

\* frontier.add(Node(...)) or frontier.add(Node(...), p)
Add(p) ==
    /\ Len(log) < MaxOps
    /\ LET n == Node(<<0, 0>>, NoParent, None, p, 0)
           ns == Append(nodes, n)
       IN /\ nodes' = ns
          /\ frontier' = IF frontier.class = "PriorityFrontier"
                         THEN PriorityAdd(frontier, Len(ns), priority(n, "CustoMinimo"))
                         ELSE ListAdd(frontier, Len(ns))
          /\ log' = Append(log, [op |-> "add", node |-> Len(ns), raised |-> None])
    /\ UNCHANGED <<m, algorithm, pc, raised, best_g, prev, before>>

\* frontier.remove()
Remove ==
    /\ Len(log) < MaxOps
    /\ LET r == FrontierRemove(frontier)
       IN /\ frontier' = r.frontier
          /\ log' = Append(log, [op |-> "remove", node |-> r.node, raised |-> r.raised])
    /\ UNCHANGED <<m, algorithm, pc, raised, best_g, nodes, prev, before>>

NextFrontier ==
    \/ \E p \in 0 .. MaxPriority : Add(p)
    \/ Remove

SpecFrontier == InitFrontier /\ [][NextFrontier]_vars

(***************************************************************************)
(* Notions the properties are stated with, defined on the grid alone.      *)
(***************************************************************************)
Open(self) == Cells(self.height, self.width) \ self.walls

Adjacent(a, b) == Abs(a[1] - b[1]) + Abs(a[2] - b[2]) = 1

\* The cell one step from cell a in the direction named by action
Moved(a, action) ==
    IF action = "cima" THEN <<a[1] - 1, a[2]>>
    ELSE IF action = "baixo" THEN <<a[1] + 1, a[2]>>
    ELSE IF action = "esquerda" THEN <<a[1], a[2] - 1>>
    ELSE IF action = "direita" THEN <<a[1], a[2] + 1>>
    ELSE a

\* The open cells reachable from the cells of S by 4-directional moves
RECURSIVE ReachableFrom(_, _)
ReachableFrom(self, S) ==
    LET more == {c \in Open(self) \ S : \E x \in S : Adjacent(x, c)}
    IN IF more = {} THEN S ELSE ReachableFrom(self, S \cup more)

GoalReachable(self) == self.goal \in ReachableFrom(self, {self.start})

\* The length of a shortest path from the cells of `layer` (at distance d
\* from the start) to the goal; -1 when there is none
RECURSIVE DistanceFrom(_, _, _, _)
DistanceFrom(self, layer, seen, d) ==
    IF self.goal \in layer THEN d
    ELSE LET more == {c \in Open(self) \ seen : \E x \in layer : Adjacent(x, c)}
         IN IF more = {} THEN -1
            ELSE DistanceFrom(self, more, seen \cup more, d + 1)

ShortestLength(self) == DistanceFrom(self, {self.start}, {self.start}, 0)

Done == pc = "idle" /\ algorithm # None
Found == Done /\ raised = None

\* solution is a walk over open cells from the start to the goal, each
\* cell one step from the one before in the direction of its action
ValidPath(self) ==
    LET actions == self.solution[1]
        cells == self.solution[2]
    IN /\ Len(self.solution) = 2
       /\ Len(actions) = Len(cells)
       /\ Len(cells) >= 1
       /\ cells[Len(cells)] = self.goal
       /\ \A i \in 1 .. Len(cells) :
             /\ cells[i] \in Open(self)
             /\ cells[i] = Moved(IF i = 1 THEN self.start ELSE cells[i - 1],
                                 actions[i])

(***************************************************************************)
(* C1.  For each of the four algorithms, on every grid whose goal is       *)
(* reachable from the start, a solve call ends, and it ends found: no      *)
(* exception, a non-empty path whose first cell is a neighbour of the      *)
(* start and whose last cell is the goal.  The call ends because every     *)
(* iteration of its loop that does not end it removes one more node        *)
(* (num_explored grows by one), and num_explored never exceeds one plus    *)
(* four times the number of open cells.                                    *)
(***************************************************************************)
C1_EndsFound ==
    (Done /\ algorithm \in Supported /\ GoalReachable(m)) =>
        /\ raised = None
        /\ Len(m.solution) = 2
        /\ Len(m.solution[1]) >= 1
        /\ Len(m.solution[2]) = Len(m.solution[1])
        /\ Adjacent(m.start, m.solution[2][1])
        /\ m.solution[2][Len(m.solution[2])] = m.goal

C1_Variant == m.num_explored <= 4 * Cardinality(Open(m)) + 1

C1_LoopStep ==
    pc = "loop" => (pc' = "idle" \/ m'.num_explored = m.num_explored + 1)

C1_SolveTerminatesFound ==
    /\ []C1_EndsFound
    /\ []C1_Variant
    /\ [][C1_LoopStep]_vars

C1_Witness ==
    /\ Found
    /\ algorithm = "DFS"
    /\ Len(m.solution[1]) >= 5
    /\ m.walls # {}

(***************************************************************************)
(* C2.  When BFS, CustoMinimo or A* finds the goal, the number of moves of *)
(* the path it stores is the length of a shortest path from the start to   *)
(* the goal; when DFS finds the goal, the path it stores is a valid path   *)
(* from the start to the goal.                                             *)
(***************************************************************************)
C2_ShortestPath ==
    Found =>
        /\ ValidPath(m)
        /\ algorithm \in {"BFS", "CustoMinimo", "A*"} =>
              Len(m.solution[1]) = ShortestLength(m)

\* A* on a grid where a wall forces a detour longer than the Manhattan
\* distance, and where DFS would do worse
C2_Witness ==
    /\ Found
    /\ algorithm = "A*"
    /\ Len(m.solution[1]) = ShortestLength(m)
    /\ ShortestLength(m) > manhattan_distance(m, m.start)
    /\ Len(FreshOutcome(m, "DFS").solution[1]) > ShortestLength(m)

(***************************************************************************)
(* C3.  For each of the four algorithms, when the goal is not reachable    *)
(* from the start the call ends with the no-solution error, raised on an   *)
(* empty frontier, and solution is None.  solution is never a partial      *)
(* path: whenever it is set, the call has ended found and it is a valid    *)
(* path from the start to the goal.                                        *)
(***************************************************************************)
C3_NoSolution ==
    /\ (Done /\ algorithm \in Supported /\ ~GoalReachable(m)) =>
          /\ raised = ErrNoSolution
          /\ FrontierEmpty(frontier)
          /\ m.solution = NoSolution
    /\ raised = ErrNoSolution => m.solution = NoSolution
    /\ m.solution # NoSolution => Found /\ ValidPath(m)

C3_Witness ==
    /\ Done
    /\ algorithm = "A*"
    /\ raised = ErrNoSolution
    /\ Cardinality(m.explored) >= 4

(***************************************************************************)
(* C4.  A solve call that follows at once a call of the same algorithm on  *)
(* the same Maze ends as that call did: the same exception or none, the    *)
(* same path (actions and cells in order), the same explored set and the   *)
(* same num_explored.                                                      *)
(***************************************************************************)
C4_SameTwice ==
    (Done /\ prev.algorithm # None) => Outcome(Cur) = prev.outcome

C4_Witness ==
    /\ Found
    /\ prev.algorithm = "DFS"
    /\ prev.outcome.num_explored >= 6
    /\ prev.outcome.solution = m.solution
    /\ Len(m.solution[1]) >= 3

(***************************************************************************)
(* C5.  Whatever calls came before, a solve call starts from num_explored  *)
(* 0, an empty explored set, no solution and a ledger holding the start    *)
(* alone, and it ends as the same call on a freshly built Maze of the      *)
(* same grid ends: the same exception or none, path, explored set and      *)
(* num_explored.                                                           *)
(***************************************************************************)
C5_RunsAsFresh ==
    /\ (pc = "loop" /\ Len(nodes) = 1 /\ FrontierNodes(frontier) = <<1>>) =>
          /\ m.num_explored = 0
          /\ m.explored = {}
          /\ m.solution = NoSolution
          /\ best_g = (m.start :> 0)
    /\ Done => Outcome(Cur) = FreshOutcome(m, algorithm)

\* A call that followed a call of another algorithm has ended found
C5_Witness ==
    /\ Found
    /\ algorithm = "BFS"
    /\ prev.called
    /\ prev.algorithm = None
    /\ m.num_explored >= 5
    /\ m.explored # {}
    /\ Outcome(Cur) = FreshOutcome(m, "BFS")
    /\ FreshOutcome(m, "DFS").solution # m.solution

(***************************************************************************)
(* C6.  A solve call with an identifier other than DFS, BFS, CustoMinimo   *)
(* and A* ends at once with the unknown-algorithm error: it never enters   *)
(* a loop, no frontier is built, no node is removed or expanded (the       *)
(* start node is the only node), explored is empty, num_explored is 0 and  *)
(* solution is None.                                                       *)
(***************************************************************************)
C6_UnknownAlgorithm ==
    (algorithm \notin Supported /\ algorithm # None) =>
        /\ pc = "idle"
        /\ raised = ErrUnknown
        /\ frontier = NoFrontier
        /\ Len(nodes) = 1
        /\ m.explored = {}
        /\ m.num_explored = 0
        /\ m.solution = NoSolution

C6_Witness ==
    /\ Done
    /\ algorithm = "dfs"
    /\ raised = ErrUnknown
    /\ GoalReachable(m)
    /\ frontier = NoFrontier

(***************************************************************************)
(* C9.  remove() on an empty frontier of each class raises the             *)
(* empty-frontier error, and no solve call ever ends with it: the driver   *)
(* tests empty() before every remove().                                    *)
(***************************************************************************)
C9_EmptyFrontierNeverSurfaces ==
    /\ \A f \in {StackFrontier, QueueFrontier, PriorityFrontier} :
          FrontierRemove(f).raised = ErrEmpty
    /\ (frontier # NoFrontier /\ FrontierEmpty(frontier)) =>
          FrontierRemove(frontier).raised = ErrEmpty
    /\ raised # ErrEmpty

\* A loop finds its frontier empty after it held nodes
C9_Witness ==
    /\ pc = "loop"
    /\ frontier.class = "PriorityFrontier"
    /\ FrontierEmpty(frontier)
    /\ frontier.counter >= 3

(***************************************************************************)
(* A frontier used on its own, read from the history of its calls.         *)
(***************************************************************************)
\* The nodes added by the first k calls of the log and not removed by them
PresentAfter(k) ==
    {log[i].node : i \in {j \in 1 .. k : log[j].op = "add"}}
        \ {log[i].node : i \in {j \in 1 .. k : log[j].op = "remove"}}

SetOf(seq) == {seq[i] : i \in 1 .. Len(seq)}

\* The nodes of the calls of the log that are `op`, in order
RECURSIVE Calls(_, _)
Calls(l, op) ==
    IF l = <<>> THEN <<>>
    ELSE IF Head(l).op = op THEN <<Head(l).node>> \o Calls(Tail(l), op)
    ELSE Calls(Tail(l), op)

\* The log is n adds followed by n removes
AddsThenRemoves ==
    /\ Len(log) >= 2
    /\ Len(log) % 2 = 0
    /\ \A i \in 1 .. Len(log) :
          log[i].op = (IF 2 * i <= Len(log) THEN "add" ELSE "remove")

\* Nodes are numbered in the order they are added
Oldest(P) == CHOOSE n \in P : \A q \in P : n <= q
Newest(P) == CHOOSE n \in P : \A q \in P : n >= q

(***************************************************************************)
(* C7.  Under any interleaving of add and remove, a StackFrontier remove   *)
(* returns the most recently added node still present and a QueueFrontier  *)
(* remove the earliest added node still present, and the frontier then     *)
(* holds the nodes present before without the one returned; n adds         *)
(* followed by n removes return the nodes in reverse insertion order       *)
(* (stack) and in insertion order (queue).                                 *)
(***************************************************************************)
C7_StackLIFOQueueFIFO ==
    frontier.class \in {"StackFrontier", "QueueFrontier"} =>
        /\ \A k \in 1 .. Len(log) :
              (log[k].op = "remove" /\ PresentAfter(k - 1) # {}) =>
                  /\ log[k].raised = None
                  /\ log[k].node =
                        IF frontier.class = "StackFrontier"
                        THEN Newest(PresentAfter(k - 1))
                        ELSE Oldest(PresentAfter(k - 1))
        /\ SetOf(FrontierNodes(frontier)) = PresentAfter(Len(log))
        /\ Len(FrontierNodes(frontier)) = Cardinality(PresentAfter(Len(log)))
        /\ AddsThenRemoves =>
              Calls(log, "remove") =
                  IF frontier.class = "StackFrontier"
                  THEN Reverse(Calls(log, "add"))
                  ELSE Calls(log, "add")

\* add, add, remove, add, remove, remove on a stack: the removes return the
\* second, the third and the first node
C7_Witness ==
    /\ frontier.class = "StackFrontier"
    /\ Len(log) = 6
    /\ Calls(log, "remove") = <<2, 3, 1>>

(***************************************************************************)
(* C8.  Under any interleaving of add(node, priority) and remove, a        *)
(* PriorityFrontier remove returns a node present whose priority is the    *)
(* smallest of those present and, among the nodes of that priority, the    *)
(* one added first, and the frontier then holds the nodes present before   *)
(* without it; the counter has grown by one with every add, so the keys    *)
(* (priority, counter) of the entries held are pairwise distinct.          *)
(***************************************************************************)
C8_PriorityOrder ==
    frontier.class = "PriorityFrontier" =>
        /\ \A k \in 1 .. Len(log) :
              (log[k].op = "remove" /\ PresentAfter(k - 1) # {}) =>
                  /\ log[k].raised = None
                  /\ log[k].node \in PresentAfter(k - 1)
                  /\ \A q \in PresentAfter(k - 1) :
                        \/ nodes[log[k].node].cost < nodes[q].cost
                        \/ /\ nodes[log[k].node].cost = nodes[q].cost
                           /\ log[k].node <= q
        /\ SetOf(FrontierNodes(frontier)) = PresentAfter(Len(log))
        /\ Len(frontier.heap) = Cardinality(PresentAfter(Len(log)))
        /\ frontier.counter = Len(Calls(log, "add"))
        /\ \A i \in 1 .. Len(frontier.heap) :
              /\ frontier.heap[i].counter = frontier.heap[i].node
              /\ frontier.heap[i].priority = nodes[frontier.heap[i].node].cost
        /\ \A i, j \in 1 .. Len(frontier.heap) :
              i # j => <<frontier.heap[i].priority, frontier.heap[i].counter>>
                          # <<frontier.heap[j].priority, frontier.heap[j].counter>>

\* Nodes of priorities 1, 0, 0 are added and then removed: the two of
\* priority 0 come first, in insertion order
C8_Witness ==
    /\ frontier.class = "PriorityFrontier"
    /\ Len(nodes) = 3
    /\ [i \in 1 .. 3 |-> nodes[i].cost] = <<1, 0, 0>>
    /\ Calls(log, "remove") = <<2, 3, 1>>

(***************************************************************************)
(* C10.  On the 5x5 grid without walls, start (0,0) and goal (0,4), each   *)
(* of the four algorithms stores the path direita, direita, direita,       *)
(* direita, of length 4, through (0,1), (0,2), (0,3), (0,4).  DFS and A*   *)
(* remove 5 nodes (num_explored = 5, the number _print_results reports)    *)
(* and expand the 4 cells (0,0) .. (0,3); BFS and CustoMinimo remove 15    *)
(* nodes and expand 14 cells.                                              *)
(***************************************************************************)
OnOpenGrid5x5 == Constructed(m) = OpenGrid5x5

FourRight == <<"direita", "direita", "direita", "direita">>

C10_OpenGrid ==
    (OnOpenGrid5x5 /\ Done /\ algorithm \in Supported) =>
        /\ raised = None
        /\ m.solution = <<FourRight, <<<<0, 1>>, <<0, 2>>, <<0, 3>>, <<0, 4>>>>>>
        /\ Len(m.solution[1]) = 4
        /\ algorithm \in {"DFS", "A*"} =>
              /\ m.num_explored = 5
              /\ m.explored = {<<0, 0>>, <<0, 1>>, <<0, 2>>, <<0, 3>>}
        /\ algorithm \in {"BFS", "CustoMinimo"} =>
              /\ m.num_explored = 15
              /\ Cardinality(m.explored) = 14

C10_Witness ==
    /\ OnOpenGrid5x5
    /\ Found
    /\ algorithm = "A*"
    /\ m.num_explored = 5

\* The claim as stated: all four algorithms explore exactly 5 cells
C10_AllExploreFive ==
    (OnOpenGrid5x5 /\ Done /\ algorithm \in Supported) =>
        /\ raised = None
        /\ m.solution[1] = FourRight
        /\ Len(m.solution[1]) = 4
        /\ m.num_explored = 5

(***************************************************************************)
(* The latest iteration of the loop, read from the state it found          *)
(* (`before`) and the state it left.                                       *)
(***************************************************************************)
PriorityRun == algorithm \in {"CustoMinimo", "A*"}

Held(f) == SetOf(FrontierNodes(f))

\* The latest iteration found a node to remove
Removing == before.pc = "loop" /\ ~FrontierEmpty(before.frontier)

\* The node it removed: the one the frontier held and holds no more
RemovedNode == CHOOSE n \in Held(before.frontier) : n \notin Held(frontier)
RemovedCell == nodes[RemovedNode].state

\* The nodes it created
Created == (Len(before.nodes) + 1) .. Len(nodes)

\* It marked the cell of the removed node explored
Expanded ==
    /\ Removing
    /\ RemovedCell \in m.explored
    /\ RemovedCell \notin before.self.explored

\* The open cells one step from cell a
Around(self, a) == {c \in Open(self) : Adjacent(a, c)}

(***************************************************************************)
(* C11.  In a CustoMinimo or A* run, the iteration that expands a node     *)
(* enqueues, for each neighbour cell, one new node of cost node.cost + 1   *)
(* and sets the ledger of the cell to that cost if and only if the cell    *)
(* was absent from the ledger or that cost is strictly less than its       *)
(* ledger value; for any other cell it enqueues nothing and leaves the     *)
(* ledger as it was.  No iteration enqueues anything else, and a ledger    *)
(* entry, once present, stays present and never increases.                 *)
(***************************************************************************)
C11_Relaxation ==
    (PriorityRun /\ Removing) =>
        LET new_cost == nodes[RemovedNode].cost + 1
            Better(s) == s \notin DOMAIN before.best_g \/ new_cost < before.best_g[s]
        IN /\ Held(frontier) = (Held(before.frontier) \ {RemovedNode}) \cup Created
           /\ \A c \in Created :
                 /\ Expanded
                 /\ nodes[c].state \in Around(m, RemovedCell)
                 /\ nodes[c].cost = new_cost
           /\ Expanded =>
                 \A s \in Around(m, RemovedCell) :
                     IF Better(s)
                     THEN /\ Cardinality({c \in Created : nodes[c].state = s}) = 1
                          /\ s \in DOMAIN best_g
                          /\ best_g[s] = new_cost
                     ELSE /\ {c \in Created : nodes[c].state = s} = {}
                          /\ best_g[s] = before.best_g[s]
           /\ DOMAIN before.best_g \subseteq DOMAIN best_g
           /\ \A s \in DOMAIN before.best_g :
                 /\ best_g[s] <= before.best_g[s]
                 /\ (~Expanded \/ s \notin Around(m, RemovedCell)) =>
                       best_g[s] = before.best_g[s]
           /\ \A s \in DOMAIN best_g \ DOMAIN before.best_g :
                 Expanded /\ s \in Around(m, RemovedCell)

\* An A* expansion lowers a ledger entry that was present, adds one that
\* was absent and leaves one alone
C11_Witness ==
    /\ algorithm = "A*"
    /\ Expanded
    /\ \E c \in Created :
          /\ nodes[c].state \in DOMAIN before.best_g
          /\ nodes[c].cost < before.best_g[nodes[c].state]
    /\ \E s \in Around(m, RemovedCell) :
          /\ s \in DOMAIN before.best_g
          /\ best_g[s] = before.best_g[s]

(***************************************************************************)
(* C12.  In a BFS run no two nodes are created for the same cell, and      *)
(* every node created is added to the frontier when it is created: the     *)
(* start node at the start of the call, a node for another cell by the     *)
(* first iteration that reaches the cell.  So the frontier never holds     *)
(* two nodes of one cell, and no iteration removes a node whose cell is    *)
(* already explored.                                                       *)
(***************************************************************************)
C12_BFSAddsCellOnce ==
    (algorithm = "BFS") =>
        /\ nodes[1].state = m.start
        /\ \A i, j \in 1 .. Len(nodes) : i # j => nodes[i].state # nodes[j].state
        /\ Held(frontier) \subseteq 1 .. Len(nodes)
        /\ Len(FrontierNodes(frontier)) =
              Cardinality({nodes[n].state : n \in Held(frontier)})
        /\ before = NoStep => FrontierNodes(frontier) = <<1>>
        /\ Removing =>
              /\ RemovedCell \notin before.self.explored
              /\ Held(frontier) = (Held(before.frontier) \ {RemovedNode}) \cup Created
              /\ \A c \in Created :
                    /\ nodes[c].state \in Around(m, RemovedCell)
                    /\ \A n \in 1 .. Len(before.nodes) :
                          nodes[n].state # nodes[c].state
              /\ Expanded =>
                    \A s \in Around(m, RemovedCell) :
                        \E n \in 1 .. Len(nodes) : nodes[n].state = s

\* A BFS iteration reaches again a cell that a node in the frontier
\* stands for, and adds no node for it
C12_Witness ==
    /\ algorithm = "BFS"
    /\ Expanded
    /\ Created # {}
    /\ \E s \in Around(m, RemovedCell) :
          /\ \E n \in Held(before.frontier) \ {RemovedNode} : nodes[n].state = s
          /\ \A c \in Created : nodes[c].state # s

\* The nodes on the parent chain of node n, from the child of the root
\* down to n
RECURSIVE ChainTo(_)
ChainTo(n) ==
    IF nodes[n].parent = NoParent THEN <<>>
    ELSE Append(ChainTo(nodes[n].parent), n)

\* The path of node n: the actions and the cells of its chain
PathOf(n) ==
    << [i \in 1 .. Len(ChainTo(n)) |-> nodes[ChainTo(n)[i]].action],
       [i \in 1 .. Len(ChainTo(n)) |-> nodes[ChainTo(n)[i]].state] >>

\* The removals of the call that neither ended it nor expanded a cell
Discards == m.num_explored - Cardinality(m.explored) - (IF Found THEN 1 ELSE 0)

(***************************************************************************)
(* C13.  In a run of any of the four algorithms, the iteration that        *)
(* removes a node whose cell is the goal ends the call found, with the     *)
(* path of that node stored as the solution; in a CustoMinimo or A* run    *)
(* the cost of such a node never exceeds the ledger value of the goal, so  *)
(* the staleness test that comes first never discards it.                  *)
(***************************************************************************)
C13_GoalRemovedEndsFound ==
    (algorithm \in Supported /\ Removing /\ RemovedCell = m.goal) =>
        /\ pc = "idle"
        /\ raised = None
        /\ m.solution = PathOf(RemovedNode)
        /\ PriorityRun =>
              /\ m.goal \in DOMAIN before.best_g
              /\ nodes[RemovedNode].cost <= before.best_g[m.goal]

\* An A* run that discarded a stale node removes a goal node
C13_Witness ==
    /\ algorithm = "A*"
    /\ Removing
    /\ RemovedCell = m.goal
    /\ Found
    /\ Discards >= 1
    /\ nodes[RemovedNode].cost = before.best_g[m.goal]

(***************************************************************************)
(* C14.  In a CustoMinimo or A* run, the iteration that removes a node     *)
(* whose cost is greater than the ledger value of its cell only discards   *)
(* it: the explored set, the solution and every ledger entry stay as they  *)
(* were, no node is created, the frontier loses that node alone and the    *)
(* loop goes on.  The iteration that removes a node whose cost equals the  *)
(* ledger value of its cell does not discard it: it ends the call found    *)
(* when the cell is the goal and marks the cell explored otherwise.        *)
(***************************************************************************)
C14_StaleDiscarded ==
    (PriorityRun /\ Removing) =>
        /\ RemovedCell \in DOMAIN before.best_g
        /\ nodes[RemovedNode].cost > before.best_g[RemovedCell] =>
              /\ m.explored = before.self.explored
              /\ m.solution = before.self.solution
              /\ best_g = before.best_g
              /\ Created = {}
              /\ Held(frontier) = Held(before.frontier) \ {RemovedNode}
              /\ pc = "loop"
        /\ nodes[RemovedNode].cost = before.best_g[RemovedCell] =>
              IF RemovedCell = m.goal THEN Found ELSE Expanded

\* A* has just discarded a node whose cell the ledger reaches two moves
\* sooner at least
C14_Witness ==
    /\ algorithm = "A*"
    /\ Removing
    /\ pc = "loop"
    /\ nodes[RemovedNode].cost >= before.best_g[RemovedCell] + 2
    /\ RemovedCell \in m.explored

\* The nodes that have a child: the nodes whose neighbours were generated
Parents == {nodes[n].parent : n \in 1 .. Len(nodes)} \ {NoParent}

(***************************************************************************)
(* C15.  In a run of any of the four algorithms no cell is expanded more   *)
(* than once: an iteration that marks a cell explored or creates nodes     *)
(* does so for the cell of the node it removed, which was not explored     *)
(* before, and no two nodes of the same cell have children.  An iteration  *)
(* that removes a node whose cell is already explored only discards it;    *)
(* in DFS, where nodes of one cell can wait in the frontier together, all  *)
(* but the first removed are discarded so, and in CustoMinimo and A* such  *)
(* a node is always a stale one.                                           *)
(***************************************************************************)
C15_ExpandedOnce ==
    /\ \A i, j \in Parents : i # j => nodes[i].state # nodes[j].state
    /\ \A i \in Parents : nodes[i].state \in m.explored
    /\ (algorithm \in Supported /\ Removing) =>
          /\ (Created # {} \/ m.explored # before.self.explored) =>
                /\ RemovedCell \notin before.self.explored
                /\ m.explored = before.self.explored \cup {RemovedCell}
                /\ \A c \in Created : nodes[c].parent = RemovedNode
          /\ RemovedCell \in before.self.explored =>
                /\ pc = "loop"
                /\ Created = {}
                /\ m.explored = before.self.explored
                /\ PriorityRun =>
                      nodes[RemovedNode].cost > before.best_g[RemovedCell]

\* DFS has just removed, and discarded, the second of two nodes of one
\* cell that waited in the frontier together
C15_Witness ==
    /\ algorithm = "DFS"
    /\ Removing
    /\ pc = "loop"
    /\ RemovedCell \in before.self.explored
    /\ \E n \in 1 .. Len(nodes) :
          /\ n # RemovedNode
          /\ nodes[n].state = RemovedCell
          /\ n \in Parents
          /\ n > RemovedNode

(***************************************************************************)
(* C16.  When a call ends found, its last iteration removed a node of the  *)
(* goal cell, and the solution is the parent chain of that node read from  *)
(* the start to the goal: the list of actions and the list of cells both   *)
(* have the length of the node's cost, the start node and the start cell   *)
(* are not in them, the last cell is the goal, and every cell is the open  *)
(* cell of the grid one step from the cell before it (from the start for   *)
(* the first) in the direction its action names.                           *)
(***************************************************************************)
C16_SolutionIsParentChain ==
    Found =>
        /\ Removing
        /\ RemovedCell = m.goal
        /\ m.solution = PathOf(RemovedNode)
        /\ Len(m.solution[1]) = nodes[RemovedNode].cost
        /\ Len(m.solution[2]) = nodes[RemovedNode].cost
        /\ nodes[RemovedNode].cost >= 1
        /\ \A i \in 1 .. Len(m.solution[2]) : m.solution[2][i] # m.start
        /\ \A i \in 1 .. Len(m.solution[1]) :
              m.solution[1][i] \in {"cima", "baixo", "esquerda", "direita"}
        /\ m.solution[2][Len(m.solution[2])] = m.goal
        /\ \A i \in 1 .. Len(m.solution[2]) :
              LET from == IF i = 1 THEN m.start ELSE m.solution[2][i - 1]
              IN /\ m.solution[2][i] = Moved(from, m.solution[1][i])
                 /\ m.solution[2][i] \in Cells(m.height, m.width)
                 /\ m.solution[2][i] \notin m.walls

\* CustoMinimo stores a path of five moves or more that turns three ways
C16_Witness ==
    /\ Found
    /\ algorithm = "CustoMinimo"
    /\ nodes[RemovedNode].cost >= 5
    /\ m.solution = PathOf(RemovedNode)
    /\ Cardinality(SetOf(m.solution[1])) >= 3

\* The number of rows plus the number of columns between cells a and b
Taxicab(a, b) ==
    (IF a[1] >= b[1] THEN a[1] - b[1] ELSE b[1] - a[1])
        + (IF a[2] >= b[2] THEN a[2] - b[2] ELSE b[2] - a[2])

(***************************************************************************)
(* C17.  Of the nodes a call creates, the first is the start node: the     *)
(* start cell, cost 0, no parent, no action.  Every other node has a       *)
(* parent created before it and one of the four actions; its cell is the   *)
(* open cell one step from its parent's cell in the direction of its       *)
(* action, and its cost is its parent's cost plus 1, the length of its     *)
(* parent chain.  The heuristic of every node is the Manhattan distance    *)
(* from its cell to the goal in an A* run and 0 in a run of any other      *)
(* algorithm, and its total cost is its cost plus its heuristic.           *)
(***************************************************************************)
C17_NodeFields ==
    (algorithm # None) =>
        /\ Len(nodes) >= 1
        /\ nodes[1].state = m.start
        /\ nodes[1].cost = 0
        /\ nodes[1].parent = NoParent
        /\ nodes[1].action = None
        /\ \A n \in 2 .. Len(nodes) :
              /\ nodes[n].parent \in 1 .. n - 1
              /\ nodes[n].action \in {"cima", "baixo", "esquerda", "direita"}
              /\ nodes[n].state = Moved(nodes[nodes[n].parent].state, nodes[n].action)
              /\ nodes[n].state \in Around(m, nodes[nodes[n].parent].state)
              /\ nodes[n].cost = nodes[nodes[n].parent].cost + 1
              /\ nodes[n].cost = Len(ChainTo(n))
        /\ \A n \in 1 .. Len(nodes) :
              /\ nodes[n].heuristic =
                    IF algorithm = "A*" THEN Taxicab(nodes[n].state, m.goal) ELSE 0
              /\ nodes[n].total_cost = nodes[n].cost + nodes[n].heuristic

\* An A* run has created a node three moves deep whose cell is farther
\* from the goal than its parent's cell
C17_Witness ==
    /\ algorithm = "A*"
    /\ m.walls # {}
    /\ \E n \in 2 .. Len(nodes) :
          /\ nodes[n].cost >= 3
          /\ nodes[n].heuristic = nodes[nodes[n].parent].heuristic + 1
          /\ nodes[n].heuristic = Taxicab(nodes[n].state, m.goal)

\* solve(alg) from the run state st after at most k iterations of its loop
RECURSIVE Steps(_, _, _)
Steps(st, alg, k) ==
    IF k = 0 \/ st.pc # "loop" THEN st ELSE Steps(Iter(st, alg), alg, k - 1)

\* The iterations the running (or last) call has made
Iterations == m.num_explored + (IF raised = ErrNoSolution THEN 1 ELSE 0)

\* The other of BFS and CustoMinimo
Twin(alg) == IF alg = "BFS" THEN "CustoMinimo" ELSE "BFS"

\* The node the next iteration would remove from frontier f, 0 if none
NextRemoved(f) == IF FrontierEmpty(f) THEN 0 ELSE FrontierRemove(f).node

(***************************************************************************)
(* C18.  On every grid a BFS call and a CustoMinimo call go through the    *)
(* same steps: after as many iterations each has created the same nodes    *)
(* in the same order, holds the same nodes in its frontier and removes     *)
(* the same node next, and has the same explored set, num_explored and     *)
(* ledger.  So both end with the no-solution error or both end found,      *)
(* with the same path, explored set and num_explored, having removed the   *)
(* same nodes in the same order.                                           *)
(***************************************************************************)
C18_BFSAsCustoMinimo ==
    (algorithm \in {"BFS", "CustoMinimo"}) =>
        LET twin == Steps(Entry(Constructed(m), Twin(algorithm)),
                          Twin(algorithm), Iterations)
        IN /\ twin.pc = pc
           /\ twin.raised = raised
           /\ twin.self = m
           /\ twin.nodes = nodes
           /\ twin.best_g = best_g
           /\ Held(twin.frontier) = Held(frontier)
           /\ NextRemoved(twin.frontier) = NextRemoved(frontier)
           /\ Done => Outcome(Cur) = FreshOutcome(m, Twin(algorithm))

\* A BFS call ends found as the CustoMinimo call does, after six removals
\* or more, and not as the DFS or the A* call does
C18_Witness ==
    /\ Found
    /\ algorithm = "BFS"
    /\ m.num_explored >= 6
    /\ m.walls # {}
    /\ Outcome(Cur) = FreshOutcome(m, "CustoMinimo")
    /\ Outcome(Cur).solution # FreshOutcome(m, "DFS").solution
    /\ Outcome(Cur).explored # FreshOutcome(m, "A*").explored

(***************************************************************************)
(* C19.  When a call of any of the four algorithms ends with the           *)
(* no-solution error, the explored set is exactly the set of the cells     *)
(* that 4-directional moves over open cells reach from the start, and the  *)
(* goal is not in it.                                                      *)
(***************************************************************************)
C19_FailureExploresReachable ==
    (Done /\ algorithm \in Supported /\ raised = ErrNoSolution) =>
        /\ m.explored = ReachableFrom(m, {m.start})
        /\ m.goal \notin m.explored

\* DFS fails after exploring three cells or more, leaving unexplored the
\* goal and another open cell
C19_Witness ==
    /\ Done
    /\ algorithm = "DFS"
    /\ raised = ErrNoSolution
    /\ Cardinality(m.explored) >= 3
    /\ Cardinality(Open(m) \ m.explored) >= 2
    /\ m.explored = ReachableFrom(m, {m.start})

\* The nodes the running (or last) call has removed from its frontier:
\* every node it created went into the frontier
RemovedNodes == (1 .. Len(nodes)) \ Held(frontier)

(***************************************************************************)
(* C20.  At every point of a run of any of the four algorithms,            *)
(* num_explored is the number of nodes removed from the frontier so far:   *)
(* every iteration that removes a node adds one to it, whether it          *)
(* discards the node, expands it or ends the call with it, and the         *)
(* iteration that finds the frontier empty adds nothing.  Every explored   *)
(* cell is the cell of a removed node and has a node for each of its open  *)
(* neighbours.  When the call ends found, the goal is not explored, the    *)
(* start and every cell of the path but the goal are, and num_explored is  *)
(* at least the number of explored cells plus 1, exactly that for BFS.     *)
(***************************************************************************)
C20_CounterAndExplored ==
    (algorithm \in Supported) =>
        /\ m.num_explored = Cardinality(RemovedNodes)
        /\ m.num_explored = Len(nodes) - Len(FrontierNodes(frontier))
        /\ before = NoStep => m.num_explored = 0
        /\ Removing => m.num_explored = before.self.num_explored + 1
        /\ (before.pc = "loop" /\ ~Removing) =>
              m.num_explored = before.self.num_explored
        /\ \A c \in m.explored :
              /\ \E n \in RemovedNodes : nodes[n].state = c
              /\ \A s \in Around(m, c) : \E n \in 1 .. Len(nodes) : nodes[n].state = s
        /\ Found =>
              /\ m.goal \notin m.explored
              /\ m.start \in m.explored
              /\ \A i \in 1 .. Len(m.solution[2]) :
                    m.solution[2][i] # m.goal => m.solution[2][i] \in m.explored
              /\ m.num_explored >= Cardinality(m.explored) + 1
              /\ algorithm = "BFS" => m.num_explored = Cardinality(m.explored) + 1

\* A DFS call ends found having removed a node that it discarded
C20_Witness ==
    /\ Found
    /\ algorithm = "DFS"
    /\ m.num_explored >= Cardinality(m.explored) + 2
    /\ m.num_explored = Cardinality(RemovedNodes)
    /\ Len(m.solution[2]) >= 3
====
